---------------------------- MODULE Spec2Model ----------------------------
(***************************************************************************)
(* Model of the setup-copilot-cli action: src/src/index.js (run and the    *)
(* functions it calls) and src/src/nodeUtils.js (ensureNodeAndNpm).        *)
(*                                                                         *)
(* One run of the action is a state machine over pc.  Everything outside   *)
(* the repository (the host, npm, the network, the installed binary, the   *)
(* pseudo-terminal child) is an input drawn from a small menu at the step  *)
(* that consults it.  Strings are TLA+ strings; the regular expressions    *)
(* and string helpers of the source are operators that scan them.          *)
(***************************************************************************)
EXTENDS Integers, Sequences, FiniteSets, TLC

VARIABLES
    pc,              \* position of run() / of the function it is inside
    inputVersion,    \* core.getInput('version')
    inputToken,      \* core.getInput('token')
    envGhToken,      \* process.env.GH_TOKEN as run() reads it at line 277
    envGithubToken,  \* process.env.GITHUB_TOKEN as run() reads it at line 278
    host,            \* the runner: [os, arch, probe, envVersion]: os.platform(),
                     \* os.arch(), what its node and npm answer before anything is
                     \* installed, and process.env.VERSION ("" when unset)
    version,         \* run(): const version
    hasToken,        \* run(): const hasToken
    tokenSource,     \* run(): const tokenSource
    exported,        \* core.exportVariable calls, in order: <<name, value>>
    platformInfo,    \* run(): const platformInfo ([platform, arch]) or NoPlatform
    check,           \* ensureNodeAndNpm: let check
    nodeInstalls,    \* number of installNodeAndNpm calls of this run
    installed,       \* run(): let installed
    strategies,      \* install strategies called, in order: [strategy, result]
    log,             \* external operations performed, in order
    addedPaths,      \* core.addPath calls, in order
    scriptEnv,       \* the env handed to the install script: [VERSION, PREFIX]
    copilotPath,     \* verifyInstallation: const copilotPath
    child,           \* the pty child: "none", "running", "exited"
    dataEvents,      \* every data event the pty delivered, in order
    chunks,          \* verifyWithToken: const chunks
    now,             \* milliseconds since pty.spawn
    killAfter,       \* timer of line 183: "unset", "armed", "fired", "cleared"
    followUp,        \* timer of line 185: "unset", "armed", "fired"
    hardKill,        \* timer of line 189: "unset", "armed", "fired", "cleared"
    followUpDue,     \* due time of the follow-up timer once armed
    writes,          \* ptyProcess.write calls: [at, afterExit]
    kills,           \* ptyProcess.kill calls: [at, afterExit]
    exitCode,        \* event.exitCode of the exit event, or NoExit
    settled,         \* how the session promise settled: "pending", "resolved", "rejected"
    combinedOutput,  \* verifyWithToken: const combinedOutput
    handshake,       \* loginPattern.test(combinedOutput): "untested", "observed", "missing"
    reported,        \* what `copilot -v` printed (raw stdout) when it was run
    verification,    \* run(): const verification
    warnings,        \* core.warning messages, in order
    failed,          \* core.setFailed messages, in order
    outputs          \* core.setOutput calls, in order: <<name, value>>

inputsV  == <<inputVersion, inputToken, envGhToken, envGithubToken, host>>
runV     == <<version, hasToken, tokenSource, exported, platformInfo>>
nodeV    == <<check, nodeInstalls>>
installV == <<installed, strategies, scriptEnv>>
effectsV == <<log, addedPaths>>
timersV  == <<now, killAfter, followUp, hardKill, followUpDue>>
signalsV == <<writes, kills>>
ptyV     == <<child, dataEvents, chunks, exitCode, settled, combinedOutput, handshake>>
verifyV  == <<copilotPath, reported, verification>>
reportV  == <<warnings, failed, outputs>>

vars == <<pc, inputsV, runV, nodeV, installV, effectsV, timersV, signalsV, ptyV,
          verifyV, reportV>>

-----------------------------------------------------------------------------
(* Bounds of the model *)

\* most data events one pty session delivers
MaxChunks == 2
\* largest step of the clock between two timer deadlines
TickMs == 5000
\* longest version input drawn from the version alphabet
MaxVersionLen == 7

(* Constants of the program *)

GracefulMs == 5000
FollowUpMs == 250
HardKillMs == 8000
MinNodeMajor == 24
MinNpmMajor == 10

-----------------------------------------------------------------------------
(* String helpers: what the JavaScript string methods and regular          *)
(* expressions of the source compute.                                      *)

CharAt(s, i) == SubSeq(s, i, i)

UpperChars == "ABCDEFGHIJKLMNOPQRSTUVWXYZ"
LowerChars == "abcdefghijklmnopqrstuvwxyz"
DigitChars == "0123456789"

IndexIn(alphabet, c) ==
    IF \E k \in 1..Len(alphabet) : CharAt(alphabet, k) = c
    THEN CHOOSE k \in 1..Len(alphabet) : CharAt(alphabet, k) = c
    ELSE 0

\* the /i flag: compare letters without case
LowerChar(c) ==
    IF IndexIn(UpperChars, c) > 0 THEN CharAt(LowerChars, IndexIn(UpperChars, c)) ELSE c

\* \s of a JavaScript regular expression (the ASCII members)
IsSpace(c) == c \in {" ", "\t", "\n", "\r", "\f"}
\* \d
IsDigit(c) == IndexIn(DigitChars, c) > 0
\* [a-zA-Z0-9.-]
IsSuffixChar(c) ==
    \/ IndexIn(UpperChars, c) > 0
    \/ IndexIn(LowerChars, c) > 0
    \/ IsDigit(c)
    \/ c \in {".", "-"}

\* String.prototype.includes
Includes(hay, needle) ==
    \E i \in 0..(Len(hay) - Len(needle)) : SubSeq(hay, i + 1, i + Len(needle)) = needle

\* String.prototype.trim
RECURSIVE TrimLeft(_)
TrimLeft(s) ==
    IF Len(s) > 0 /\ IsSpace(CharAt(s, 1)) THEN TrimLeft(SubSeq(s, 2, Len(s))) ELSE s
RECURSIVE TrimRight(_)
TrimRight(s) ==
    IF Len(s) > 0 /\ IsSpace(CharAt(s, Len(s))) THEN TrimRight(SubSeq(s, 1, Len(s) - 1)) ELSE s
Trim(s) == TrimRight(TrimLeft(s))

\* Array.prototype.join('')
RECURSIVE Join(_)
Join(ss) == IF ss = <<>> THEN "" ELSE Head(ss) \o Join(Tail(ss))

\* first index >= i of s that does not satisfy the class (Len(s)+1 if none):
\* the end of a greedy run \d+ or \s+ or \S+ starting at i
RECURSIVE DigitRunEnd(_, _)
DigitRunEnd(s, i) ==
    IF i <= Len(s) /\ IsDigit(CharAt(s, i)) THEN DigitRunEnd(s, i + 1) ELSE i
RECURSIVE SpaceRunEnd(_, _)
SpaceRunEnd(s, i) ==
    IF i <= Len(s) /\ IsSpace(CharAt(s, i)) THEN SpaceRunEnd(s, i + 1) ELSE i
RECURSIVE SuffixRunEnd(_, _)
SuffixRunEnd(s, i) ==
    IF i <= Len(s) /\ IsSuffixChar(CharAt(s, i)) THEN SuffixRunEnd(s, i + 1) ELSE i

\* a literal of the pattern matched at position i, letters compared without case
MatchLiteralCI(s, i, lit) ==
    /\ i + Len(lit) - 1 <= Len(s)
    /\ \A k \in 1..Len(lit) : LowerChar(CharAt(s, i + k - 1)) = CharAt(lit, k)

\* Number(digits)
RECURSIVE DigitsToNat(_)
DigitsToNat(s) ==
    IF Len(s) = 0 THEN 0
    ELSE 10 * DigitsToNat(SubSeq(s, 1, Len(s) - 1)) + (IndexIn(DigitChars, CharAt(s, Len(s))) - 1)

\* `${n}` for a small non-negative integer
RECURSIVE NatToString(_)
NatToString(n) ==
    IF n < 10 THEN CharAt(DigitChars, n + 1)
    ELSE NatToString(n \div 10) \o CharAt(DigitChars, (n % 10) + 1)

-----------------------------------------------------------------------------
(* Pure functions of src/src/index.js *)

\* variant of the pattern without the final $: a prefix of v may match
versionPatternUnanchored(v) ==
    LET a  == IF Len(v) >= 1 /\ CharAt(v, 1) = "v" THEN 2 ELSE 1
        b  == DigitRunEnd(v, a)
        c  == DigitRunEnd(v, b + 1)
        d  == DigitRunEnd(v, c + 1)
    IN  /\ b > a
        /\ b <= Len(v) /\ CharAt(v, b) = "."
        /\ c > b + 1
        /\ c <= Len(v) /\ CharAt(v, c) = "."
        /\ d > c + 1

\* versionPattern = /^v?\d+\.\d+\.\d+(-[a-zA-Z0-9.-]+)?$/ : test(v)
versionPatternTest(v) ==
    LET a  == IF Len(v) >= 1 /\ CharAt(v, 1) = "v" THEN 2 ELSE 1
        b  == DigitRunEnd(v, a)
        c  == DigitRunEnd(v, b + 1)
        d  == DigitRunEnd(v, c + 1)
        e  == SuffixRunEnd(v, d + 1)
    IN  /\ b > a
        /\ b <= Len(v) /\ CharAt(v, b) = "."
        /\ c > b + 1
        /\ c <= Len(v) /\ CharAt(v, c) = "."
        /\ d > c + 1
        /\ \/ d = Len(v) + 1
           \/ /\ d <= Len(v) /\ CharAt(v, d) = "-"
              /\ e > d + 1
              /\ e = Len(v) + 1

\* variant of validateVersion that never throws
validateVersionAlways(v) == TRUE

\* validateVersion returns true, or throws: TRUE iff it returns
validateVersion(v) ==
    IF v = "latest" \/ v = "prerelease" THEN TRUE ELSE versionPatternTest(v)

InvalidVersionMessage(v) ==
    "Invalid version format: " \o v
    \o ". Expected format: 'latest', 'prerelease', or semantic version (e.g., 'v0.0.369' or '1.2.3')"

\* getPlatformInfo: the platform name of os.platform(), or "" where it throws
platformName(os) ==
    IF os = "win32" THEN "windows"
    ELSE IF os = "darwin" THEN "macos"
    ELSE IF os = "linux" THEN "linux"
    ELSE ""

\* variant of getPlatformInfo without the architecture check
archSupportedAny(arch) == TRUE

archSupported(arch) == ~(arch # "x64" /\ arch # "arm64")

UnsupportedPlatformMessage(os) ==
    "Unsupported platform: " \o os \o ". Copilot CLI supports Linux, macOS, and Windows."
UnsupportedArchMessage(arch) ==
    "Unsupported architecture: " \o arch \o ". Copilot CLI supports x64 and arm64 architectures."

\* installVianpm: the package reference
packageName(v) ==
    IF v = "prerelease" THEN "@github/copilot" \o "@prerelease"
    ELSE IF v # "latest" THEN "@github/copilot" \o "@" \o v
    ELSE "@github/copilot"

\* variants of the line-317 condition: without the test of `installed`, without
\* the platform test, and with macos left out
scriptFallbackIgnoringInstalled(isInstalled, platform) ==
    platform = "linux" \/ platform = "macos"
scriptFallbackAnyPlatform(isInstalled, platform) == ~isInstalled
scriptFallbackLinuxOnly(isInstalled, platform) == ~isInstalled /\ platform = "linux"

\* variant of the line-317 condition that always tries the script
scriptFallbackAlways(isInstalled, platform) == TRUE

\* run(), line 317: the condition under which the script strategy is tried
scriptFallbackAllowed(isInstalled, platform) ==
    ~isInstalled /\ (platform = "linux" \/ platform = "macos")

\* installViaScript, line 93: its own platform guard
scriptRefusesPlatform(platform) == platform = "windows"

\* installViaScript, lines 110-119: VERSION and PREFIX in the environment of
\* the script, a copy of process.env with the overrides ("" when VERSION is unset)
scriptOverrides(v, inherited) ==
    [VERSION |-> IF v # "latest" /\ v # "prerelease" THEN v ELSE inherited,
     PREFIX  |-> "~/.local"]

\* variant of normalizeVersion that keeps a leading "v"
normalizeVersionKeepingV(v) == IF v = "" THEN "" ELSE Trim(v)

\* normalizeVersion
normalizeVersion(v) ==
    IF v = "" THEN ""
    ELSE LET t == Trim(v)
         IN  IF Len(t) >= 1 /\ CharAt(t, 1) = "v" THEN SubSeq(t, 2, Len(t)) ELSE t

\* loginPattern = /logged in as user|welcome\s+\S+/i : test(s)
loggedInAt(s, i) == MatchLiteralCI(s, i, "logged in as user")
welcomeAt(s, i)  ==
    /\ MatchLiteralCI(s, i, "welcome")
    /\ LET j == i + Len("welcome")
           e == SpaceRunEnd(s, j)
       IN  e > j /\ e <= Len(s)
\* variant of the pattern without the /i flag
loginPatternCaseSensitive(s) ==
    \E i \in 1..Len(s) :
        \/ /\ i + Len("logged in as user") - 1 <= Len(s)
           /\ SubSeq(s, i, i + Len("logged in as user") - 1) = "logged in as user"
        \/ /\ i + Len("welcome") - 1 <= Len(s)
           /\ SubSeq(s, i, i + Len("welcome") - 1) = "welcome"
           /\ SpaceRunEnd(s, i + Len("welcome")) > i + Len("welcome")
           /\ SpaceRunEnd(s, i + Len("welcome")) <= Len(s)

\* variant of the pattern that matches every transcript
loginPatternAlways(s) == TRUE

loginPatternTest(s) ==
    \E i \in 1..Len(s) : loggedInAt(s, i) \/ welcomeAt(s, i)

\* run(), lines 279-287
tokenFromEnv(gh, github) == IF gh # "" THEN gh ELSE github
\* variant of hasToken that overlooks the environment
hasTokenFromInputOnly(token, gh, github) == token # ""
computeHasToken(token, gh, github) ==
    (IF token # "" THEN token ELSE tokenFromEnv(gh, github)) # ""
computeTokenSource(token, gh, github) ==
    IF token # "" THEN "input token"
    ELSE IF gh # "" THEN "GH_TOKEN env"
    ELSE IF github # "" THEN "GITHUB_TOKEN env"
    ELSE "no token"

\* variant of the line-196 condition that rejects every non-zero exit
startupRejectedOnNonZero(code, captured) == code # 0

\* verifyWithToken, line 196: the exit handler rejects
startupRejected(code, captured) == code # 0 /\ Len(captured) = 0

\* variant of the data handler without the `if (data)` test
chunkKeptAlways(data) == TRUE

\* verifyWithToken, lines 175-179: the data handler keeps a chunk
chunkKept(data) == data # ""

\* variant of verifyWithoutToken without the early return for latest/prerelease
staticVersionAlwaysCompared(requestedVersion, installedVersion) ==
    Includes(normalizeVersion(installedVersion), normalizeVersion(requestedVersion))

\* verifyWithoutToken, lines 223-232: TRUE iff it returns the installed version
staticVersionAccepted(requestedVersion, installedVersion) ==
    IF requestedVersion = "latest" \/ requestedVersion = "prerelease" THEN TRUE
    ELSE Includes(normalizeVersion(installedVersion), normalizeVersion(requestedVersion))

(* Messages *)

ExitedMessage(code) == "Copilot CLI exited with code " \o NatToString(code) \o "."
HandshakeMessage(source, output) ==
    "Copilot CLI did not emit a logged-in/welcome message. Validation attempted with "
    \o source \o ". "
    \o "Expected output to include \"logged in as user\" or \"welcome <username>\". "
    \o "Captured output:\n" \o output
MismatchMessage(installedVersion, requestedVersion) ==
    "Installed Copilot CLI version (" \o installedVersion
    \o ") does not match requested version (" \o requestedVersion \o ")."
NotFoundMessage == "Copilot CLI not found in PATH"
InstallFailedMessage == "Failed to install Copilot CLI using any available method"
VerifyFailedMessage ==
    "Copilot CLI was installed but verification failed. The CLI cannot be started."
\* variant of the warning that drops the cause
verificationWarningWithoutCause(message) == "Verification failed"

\* verifyInstallation, line 262
verificationWarning(message) == "Verification failed: " \o message
\* run(), line 342
actionFailed(message) == "Action failed: " \o message
\* run(), line 330: what run() throws for a failed verification
verificationError(result, cause) == VerifyFailedMessage

-----------------------------------------------------------------------------
(* Pure functions of src/src/nodeUtils.js *)

NaN == -1

\* index of the first digit of s at or after i (Len(s)+1 if none)
RECURSIVE FirstDigit(_, _)
FirstDigit(s, i) ==
    IF i <= Len(s) /\ ~IsDigit(CharAt(s, i)) THEN FirstDigit(s, i + 1) ELSE i

\* variant of parseMajor whose pattern is anchored at the start: /^v?(\d+)/
parseMajorAnchored(v) ==
    LET a == IF Len(v) >= 1 /\ CharAt(v, 1) = "v" THEN 2 ELSE 1
        b == DigitRunEnd(v, a)
    IN  IF b = a THEN NaN ELSE DigitsToNat(SubSeq(v, a, b - 1))

\* parseMajor: version.match(/v?(\d+)/), Number(match[1]) or NaN
parseMajor(v) ==
    LET a == FirstDigit(v, 1)
        b == DigitRunEnd(v, a)
    IN  IF a > Len(v) THEN NaN ELSE DigitsToNat(SubSeq(v, a, b - 1))

\* checkVersions, lines 97-100
versionsOk(nodeVersion, npmVersion) ==
    LET nodeMajor == parseMajor(nodeVersion)
        npmMajor  == parseMajor(npmVersion)
    IN  /\ nodeMajor # NaN
        /\ npmMajor # NaN
        /\ nodeMajor >= MinNodeMajor
        /\ npmMajor >= MinNpmMajor

\* resolveNodeFilename, lines 31-39
archiveSuffix(platform, arch) ==
    IF platform = "windows"
    THEN (IF arch = "arm64" THEN "win-arm64.zip" ELSE "win-x64.zip")
    ELSE IF platform = "macos"
    THEN (IF arch = "arm64" THEN "darwin-arm64.tar.gz" ELSE "darwin-x64.tar.gz")
    ELSE (IF arch = "arm64" THEN "linux-arm64.tar.gz" ELSE "linux-x64.tar.gz")

\* line.trim().split(/\s+/).pop()
RECURSIVE LastTokenStart(_, _)
LastTokenStart(s, i) ==
    IF i >= 1 /\ ~IsSpace(CharAt(s, i)) THEN LastTokenStart(s, i - 1) ELSE i + 1
LastToken(line) ==
    LET t == Trim(line) IN SubSeq(t, LastTokenStart(t, Len(t)), Len(t))

\* resolveNodeFilename, lines 41-49: the file name, or "" where it throws
resolveNodeFilename(shasums, platform, arch) ==
    LET suffix == archiveSuffix(platform, arch)
        hits   == {k \in 1..Len(shasums) :
                      Includes(shasums[k], "-" \o suffix) /\ Includes(shasums[k], "node-v")}
    IN  IF hits = {} THEN ""
        ELSE LastToken(shasums[CHOOSE k \in hits : \A m \in hits : k <= m])

EndsWith(s, tail) == Len(s) >= Len(tail) /\ SubSeq(s, Len(s) - Len(tail) + 1, Len(s)) = tail

\* installNodeAndNpm, lines 72-77
nodeBinPath(extractedPath, entries, platform) ==
    LET rootPath == IF Len(entries) = 1 THEN extractedPath \o "/" \o entries[1]
                    ELSE extractedPath
    IN  IF platform = "windows" THEN rootPath ELSE rootPath \o "/bin"

RequiredMessage(c) ==
    "Node.js " \o NatToString(MinNodeMajor) \o "+ and npm " \o NatToString(MinNpmMajor)
    \o "+ are required. Detected Node.js " \o c.nodeVersion \o ", npm " \o c.npmVersion \o "."
UnresolvedNodeMessage(platform, arch) ==
    "Unable to resolve Node.js binary for " \o platform \o " " \o arch \o "."
ExecFailedMessage(tool) == "The process '" \o tool \o "' failed with exit code 1"
DownloadFailedMessage == "Unexpected HTTP response: 503"

-----------------------------------------------------------------------------
(* The environment: what the host, the network and the tools can answer *)

VersionInputs == {"", "prerelease", "v1.2.3", "v9.9.9", "abc"}
TokenInputs == {"", "tok_input"}
GhTokenValues == {"", "tok_gh"}
GithubTokenValues == {"", "tok_github"}
Platforms ==
    { [os |-> "linux",   arch |-> "x64"],
      [os |-> "darwin",  arch |-> "arm64"],
      [os |-> "win32",   arch |-> "x64"],
      [os |-> "freebsd", arch |-> "x64"],
      [os |-> "linux",   arch |-> "ia32"],
      [os |-> "win32",   arch |-> "arm"],
      [os |-> "aix",     arch |-> "ppc64"] }

\* io.which for node and npm ("" when not found) and the stdout of --version
Probes ==
    { [nodePath |-> "/usr/bin/node", npmPath |-> "/usr/bin/npm", nodeOut |-> "v24.1.0\n", npmOut |-> "11.3.0\n", throws |-> FALSE],
      [nodePath |-> "/usr/bin/node", npmPath |-> "/usr/bin/npm", nodeOut |-> "v18.19.0\n", npmOut |-> "10.2.3\n", throws |-> FALSE],
      [nodePath |-> "/usr/bin/node", npmPath |-> "/usr/bin/npm", nodeOut |-> "v24.1.0\n", npmOut |-> "9.8.1\n", throws |-> FALSE],
      [nodePath |-> "/usr/bin/node", npmPath |-> "/usr/bin/npm", nodeOut |-> "node\n", npmOut |-> "10.2.3\n", throws |-> FALSE],
      [nodePath |-> "", npmPath |-> "/usr/bin/npm", nodeOut |-> "", npmOut |-> "", throws |-> FALSE],
      [nodePath |-> "/usr/bin/node", npmPath |-> "/usr/bin/npm", nodeOut |-> "", npmOut |-> "", throws |-> TRUE] }

\* SHASUMS256.txt as the list of its lines
Manifests ==
    { << "aa11  node-v24.1.0-linux-x64.tar.gz",
         "bb22  node-v24.1.0-darwin-arm64.tar.gz",
         "cc33  node-v24.1.0-win-x64.zip" >>,
      << "dd44  node-v24.1.0.pkg" >> }
\* fs.readdirSync of the extracted archive
ArchiveEntries == { << "node-v24.1.0" >>, << "bin", "lib" >> }
\* the step of installNodeAndNpm that throws ("" when none does)
NodeInstallFaults == {"", "shasums", "archive", "extract"}

\* answers of the host for checkVersions on its own: each tool found or not,
\* and version outputs around the minima, with and without "v", with text
\* before the number, with leading zeros, and without a number
CheckNodeOutputs ==
    {"v24.1.0\n", "v23.11.1\n", "v25.0.0\n", "24.0.0", "v18.19.0\n", "v100.2.1\n", "v024.1.0",
     "node v24.1.0\n", "x23.24.25", "v.24", "node\n", "", "v2.40.0\n", " 24\n"}
CheckNpmOutputs ==
    {"10.0.0\n", "9.99.99\n", "11.3.0\n", "v10.2.3", "npm 10.2.3\n", "010.1", "1.10.0\n",
     "100.0.0\n", "npm\n", ""}
CheckProbes ==
    { [nodePath |-> n, npmPath |-> m, nodeOut |-> a, npmOut |-> b, throws |-> FALSE] :
          n \in {"", "/usr/bin/node"}, m \in {"", "/usr/bin/npm"},
          a \in CheckNodeOutputs, b \in CheckNpmOutputs }

CopilotPaths == {"", "/resolved/path"}
\* stdout of `copilot -v`
ReportedVersions == {"1.2.3\n", "1.2.4\n", "2.0.0\n", "", "v9.9.9-beta\n"}
\* data events of the pty
ChunkMenu == {"", "Welcome", " ", " Alice", "LOGGED in as User"}
ExitCodes == {0, 1}

Host(p, probe) == [os |-> p.os, arch |-> p.arch, probe |-> probe, envVersion |-> ""]
Hosts == {Host(p, probe) : p \in Platforms, probe \in Probes}
\* a linux runner whose node and npm are recent enough
ReadyProbe ==
    [nodePath |-> "/usr/bin/node", npmPath |-> "/usr/bin/npm", nodeOut |-> "v24.1.0\n",
     npmOut |-> "11.3.0\n", throws |-> FALSE]
BaseHost == Host([os |-> "linux", arch |-> "x64"], ReadyProbe)
\* the same runner in a job that sets VERSION for its own use
VersionedHost == [BaseHost EXCEPT !.envVersion = "0.0.1"]

\* the runs explored: every host and every version without a credential, every
\* combination of credentials with the default version, an exact version
\* with a credential, invalid versions with a credential, and the default and
\* an exact version in a job whose environment has VERSION
RunInput(v, token, gh, github, h) ==
    [version |-> v, token |-> token, gh |-> gh, github |-> github, host |-> h]
RunInputs ==
    {RunInput(v, "", "", "", BaseHost) : v \in VersionInputs}
    \cup {RunInput("", token, gh, github, BaseHost) :
             token \in TokenInputs, gh \in GhTokenValues, github \in GithubTokenValues}
    \cup {RunInput("v1.2.3", "", "", "", h) : h \in Hosts}
    \cup {RunInput("v1.2.3", "tok_input", "", "", BaseHost)}
    \cup {RunInput("abc", "tok_input", "", "", BaseHost),
          RunInput("1.2", "", "", "tok_github",
                   Host([os |-> "freebsd", arch |-> "x64"], ReadyProbe))}
    \cup {RunInput("", "", "", "", VersionedHost),
          RunInput("v9.9.9", "", "", "", VersionedHost)}

\* version inputs for validateVersion: every string of at most MaxVersionLen
\* characters over a letter, a digit, the dot and the hyphen, and some others
VersionAlphabet == {"v", "1", ".", "-"}
RECURSIVE StringsUpTo(_)
StringsUpTo(n) ==
    IF n = 0 THEN {""}
    ELSE LET shorter == StringsUpTo(n - 1)
         IN  shorter \cup {s \o c : s \in shorter, c \in VersionAlphabet}
VersionExamples ==
    {"latest", "prerelease", "Latest", "abc", "1.2", "v1.2.3.4", "v0.0.369", "1.2.3",
     "V1.2.3", "vv1.2.3", "1.2.3-beta.1", "1.2.3_4", "1.2 .3", "v1.2.3-rc-1", "1.2.3+7"}
VersionStrings == StringsUpTo(MaxVersionLen) \cup VersionExamples

Null == "<null>"
NotRun == "<not run>"
NoExit == -1
NoPlatform == [platform |-> "", arch |-> ""]
NoCheck == [ok |-> FALSE, nodeVersion |-> Null, npmVersion |-> Null]
NoScriptEnv == [VERSION |-> Null, PREFIX |-> Null]
NoVerification == [success |-> FALSE, version |-> Null, path |-> Null]

-----------------------------------------------------------------------------
\* the state of a run before its first step, whatever its inputs
Fresh ==
    /\ pc = "start"
    /\ version = Null
    /\ hasToken = FALSE
    /\ tokenSource = Null
    /\ exported = <<>>
    /\ platformInfo = NoPlatform
    /\ check = NoCheck
    /\ nodeInstalls = 0
    /\ installed = FALSE
    /\ strategies = <<>>
    /\ log = <<>>
    /\ addedPaths = <<>>
    /\ scriptEnv = NoScriptEnv
    /\ copilotPath = Null
    /\ child = "none"
    /\ dataEvents = <<>>
    /\ chunks = <<>>
    /\ now = 0
    /\ killAfter = "unset"
    /\ followUp = "unset"
    /\ hardKill = "unset"
    /\ followUpDue = 0
    /\ writes = <<>>
    /\ kills = <<>>
    /\ exitCode = NoExit
    /\ settled = "pending"
    /\ combinedOutput = Null
    /\ handshake = "untested"
    /\ reported = NotRun
    /\ verification = NoVerification
    /\ warnings = <<>>
    /\ failed = <<>>
    /\ outputs = <<>>

Init ==
    /\ \E r \in RunInputs :
         /\ inputVersion = r.version
         /\ inputToken = r.token
         /\ envGhToken = r.gh
         /\ envGithubToken = r.github
         /\ host = r.host
    /\ Fresh

-----------------------------------------------------------------------------
(* run(), lines 271-313: inputs, validation, credential export, platform   *)
(* resolution, up to the first await of ensureNodeAndNpm.                  *)

\* variant of lines 295-303 that prefers GITHUB_TOKEN to an existing GH_TOKEN
exportsForGithubFirst(token, gh, github) ==
    IF token # "" THEN << <<"GH_TOKEN", token>> >>
    ELSE IF github # "" THEN << <<"GH_TOKEN", github>> >>
    ELSE << >>

\* lines 295-303: the core.exportVariable calls
exportsFor(token, gh, github) ==
    IF token # "" THEN << <<"GH_TOKEN", token>> >>
    ELSE IF gh # "" THEN << >>
    ELSE IF github # "" THEN << <<"GH_TOKEN", github>> >>
    ELSE << >>

Start ==
    /\ pc = "start"
    /\ LET v     == IF inputVersion # "" THEN inputVersion ELSE "latest"
           valid == validateVersion(v)
           pname == platformName(host.os)
           err   == IF ~valid THEN InvalidVersionMessage(v)
                    ELSE IF pname = "" THEN UnsupportedPlatformMessage(host.os)
                    ELSE IF ~archSupported(host.arch) THEN UnsupportedArchMessage(host.arch)
                    ELSE ""
       IN  /\ version' = v
           /\ hasToken' = computeHasToken(inputToken, envGhToken, envGithubToken)
           /\ tokenSource' = computeTokenSource(inputToken, envGhToken, envGithubToken)
           /\ exported' = IF valid THEN exportsFor(inputToken, envGhToken, envGithubToken)
                          ELSE exported
           /\ platformInfo' = IF err = "" THEN [platform |-> pname, arch |-> host.arch]
                              ELSE platformInfo
           /\ pc' = IF err = "" THEN "node_check" ELSE "failed"
           /\ failed' = IF err = "" THEN failed ELSE Append(failed, actionFailed(err))
    /\ UNCHANGED <<inputsV, nodeV, installV, effectsV, timersV, signalsV, ptyV, verifyV,
                   warnings, outputs>>

(* ensureNodeAndNpm *)

\* variant of checkVersions that never finds the versions good enough
checkVersionsNeverOk(probe) ==
    IF probe.nodePath = "" \/ probe.npmPath = ""
    THEN [ok |-> FALSE, nodeVersion |-> Null, npmVersion |-> Null]
    ELSE [ok |-> FALSE, nodeVersion |-> Trim(probe.nodeOut), npmVersion |-> Trim(probe.npmOut)]

\* checkVersions, lines 83-103, against one answer of the host
checkVersions(probe) ==
    IF probe.nodePath = "" \/ probe.npmPath = ""
    THEN [ok |-> FALSE, nodeVersion |-> Null, npmVersion |-> Null]
    ELSE [ok |-> versionsOk(Trim(probe.nodeOut), Trim(probe.npmOut)),
          nodeVersion |-> Trim(probe.nodeOut), npmVersion |-> Trim(probe.npmOut)]

detected(v) == IF v = Null THEN "unknown" ELSE v

\* lines 105-107 and 114-124: a check, first or second
CheckVersions ==
    /\ pc \in {"node_check", "node_recheck"}
    /\ \E probe \in (IF pc = "node_check" THEN {host.probe} ELSE Probes) :
         LET found == probe.nodePath # "" /\ probe.npmPath # ""
             c     == checkVersions(probe)
             err   == IF found /\ probe.throws THEN ExecFailedMessage("node")
                      ELSE IF pc = "node_recheck" /\ ~c.ok
                      THEN RequiredMessage([nodeVersion |-> detected(c.nodeVersion),
                                            npmVersion |-> detected(c.npmVersion)])
                      ELSE ""
         IN  /\ log' = log \o <<"which node", "which npm">>
                       \o (IF ~found THEN <<>>
                           ELSE IF probe.throws THEN <<"node --version">>
                           ELSE <<"node --version", "npm --version">>)
             /\ check' = IF found /\ probe.throws THEN check ELSE c
             /\ pc' = IF err # "" THEN "failed"
                      ELSE IF c.ok THEN "npm"
                      ELSE "node_install"
             /\ failed' = IF err = "" THEN failed ELSE Append(failed, actionFailed(err))
    /\ UNCHANGED <<inputsV, runV, nodeInstalls, installV, addedPaths, timersV, signalsV,
                   ptyV, verifyV, warnings, outputs>>

\* installNodeAndNpm, lines 52-81
InstallNodeAndNpm ==
    /\ pc = "node_install"
    /\ \E fault \in NodeInstallFaults, shasums \in Manifests, entries \in ArchiveEntries :
         LET filename == resolveNodeFilename(shasums, platformInfo.platform, platformInfo.arch)
             extract  == IF EndsWith(filename, ".zip") THEN "extractZip" ELSE "extractTar"
             err      == IF fault = "shasums" THEN DownloadFailedMessage
                         ELSE IF filename = ""
                         THEN UnresolvedNodeMessage(platformInfo.platform, platformInfo.arch)
                         ELSE IF fault = "archive" THEN DownloadFailedMessage
                         ELSE IF fault = "extract" THEN ExecFailedMessage("tar")
                         ELSE ""
         IN  /\ log' = log \o <<"download SHASUMS256.txt">>
                       \o (IF fault = "shasums" \/ filename = "" THEN <<>>
                           ELSE IF fault = "archive" THEN <<"download " \o filename>>
                           ELSE <<"download " \o filename, extract>>)
             /\ addedPaths' = IF err = ""
                              THEN Append(addedPaths,
                                          nodeBinPath("/tmp/node", entries, platformInfo.platform))
                              ELSE addedPaths
             /\ pc' = IF err = "" THEN "node_recheck" ELSE "failed"
             /\ failed' = IF err = "" THEN failed ELSE Append(failed, actionFailed(err))
    /\ nodeInstalls' = nodeInstalls + 1
    /\ UNCHANGED <<inputsV, runV, check, installV, timersV, signalsV, ptyV, verifyV,
                   warnings, outputs>>

-----------------------------------------------------------------------------
(* The install strategies *)

SetLast(seq, r) == [seq EXCEPT ![Len(seq)] = r]
Outcome(strategy, result) == [strategy |-> strategy, result |-> result]

\* installVianpm, lines 64-85, then run(), lines 314-324; when the fallback is
\* taken, installViaScript up to its first await (lines 90-104)
InstallVianpm ==
    /\ pc = "npm"
    /\ \E ok \in BOOLEAN :
         LET platform == platformInfo.platform
             fallback == scriptFallbackAllowed(ok, platform)
             refused  == fallback /\ scriptRefusesPlatform(platform)
             pending  == fallback /\ ~refused
             result   == IF fallback THEN FALSE ELSE ok
         IN  /\ log' = Append(log, "npm install -g " \o packageName(version))
             /\ installed' = result
             /\ strategies' =
                    <<Outcome("npm", IF ok THEN "ok" ELSE "failed")>>
                    \o (IF ~fallback THEN <<>>
                        ELSE IF refused THEN <<Outcome("script", "failed")>>
                        ELSE <<Outcome("script", "running")>>)
             /\ warnings' =
                    warnings
                    \o (IF ok THEN <<>>
                        ELSE <<"Failed to install via npm: " \o ExecFailedMessage("npm")>>)
                    \o (IF refused THEN <<"Install script not supported on Windows">>
                        ELSE <<>>)
             /\ pc' = IF pending THEN "download" ELSE IF result THEN "which" ELSE "failed"
             /\ failed' = IF ~pending /\ ~result
                          THEN Append(failed, actionFailed(InstallFailedMessage))
                          ELSE failed
    /\ UNCHANGED <<inputsV, runV, nodeV, scriptEnv, addedPaths, timersV, signalsV, ptyV,
                   verifyV, outputs>>

\* variant of installViaScript without its catch: the error of the step reaches
\* the catch of run()
ScriptThrewPastRun(message) ==
    /\ warnings' = warnings
    /\ strategies' = strategies
    /\ installed' = installed
    /\ failed' = Append(failed, actionFailed(message))
    /\ pc' = "failed"

\* installViaScript, lines 132-135, then run(), lines 319-324: a step threw
ScriptThrew(message) ==
    /\ warnings' = Append(warnings, "Failed to install via script: " \o message)
    /\ strategies' = SetLast(strategies, Outcome("script", "failed"))
    /\ installed' = FALSE
    /\ failed' = Append(failed, actionFailed(InstallFailedMessage))
    /\ pc' = "failed"

\* installViaScript, lines 99-104
DownloadScript ==
    /\ pc = "download"
    /\ log' = Append(log, "download https://gh.io/copilot-install")
    /\ \E ok \in BOOLEAN :
         IF ok
         THEN /\ pc' = "chmod"
              /\ UNCHANGED <<warnings, strategies, installed, failed>>
         ELSE ScriptThrew(DownloadFailedMessage)
    /\ UNCHANGED <<inputsV, runV, nodeV, scriptEnv, addedPaths, timersV, signalsV, ptyV,
                   verifyV, outputs>>

\* installViaScript, lines 106-107
ChmodScript ==
    /\ pc = "chmod"
    /\ log' = Append(log, "chmod +x copilot-install.sh")
    /\ \E ok \in BOOLEAN :
         IF ok
         THEN /\ pc' = "bash"
              /\ UNCHANGED <<warnings, strategies, installed, failed>>
         ELSE ScriptThrew(ExecFailedMessage("chmod"))
    /\ UNCHANGED <<inputsV, runV, nodeV, scriptEnv, addedPaths, timersV, signalsV, ptyV,
                   verifyV, outputs>>

\* installViaScript, lines 109-131
RunScript ==
    /\ pc = "bash"
    /\ log' = Append(log, "bash copilot-install.sh")
    /\ scriptEnv' = scriptOverrides(version, host.envVersion)
    /\ \E ok \in BOOLEAN :
         IF ok
         THEN /\ addedPaths' = Append(addedPaths, scriptEnv'.PREFIX \o "/bin")
              /\ strategies' = SetLast(strategies, Outcome("script", "ok"))
              /\ installed' = TRUE
              /\ pc' = "which"
              /\ UNCHANGED <<warnings, failed>>
         ELSE /\ ScriptThrew(ExecFailedMessage("bash"))
              /\ UNCHANGED addedPaths
    /\ UNCHANGED <<inputsV, runV, nodeV, timersV, signalsV, ptyV, verifyV, outputs>>

-----------------------------------------------------------------------------
(* Verification *)

\* variant in which run() returns after a failed verification without throwing
VerificationThrewUnreported(cause) ==
    /\ warnings' = Append(warnings, verificationWarning(cause))
    /\ verification' = [success |-> FALSE, version |-> Null, path |-> Null]
    /\ failed' = failed
    /\ pc' = "failed"

\* verifyInstallation, lines 261-264, then run(), lines 329-331 and 341-343:
\* an error thrown inside verifyInstallation
VerificationThrew(cause) ==
    /\ warnings' = Append(warnings, verificationWarning(cause))
    /\ verification' = [success |-> FALSE, version |-> Null, path |-> Null]
    /\ failed' = Append(failed, actionFailed(verificationError(verification', cause)))
    /\ pc' = "failed"

\* variant of run() that skips the setOutput calls
VerificationPassedWithoutOutputs(v, path) ==
    /\ verification' = [success |-> TRUE, version |-> v, path |-> path]
    /\ outputs' = outputs
    /\ pc' = "done"

\* run(), lines 333-339, after verifyInstallation returned success
VerificationPassed(v, path) ==
    /\ verification' = [success |-> TRUE, version |-> v, path |-> path]
    /\ outputs' = outputs \o << <<"version", verification'.version>>,
                              <<"path", verification'.path>> >>
    /\ pc' = "done"

\* verifyInstallation, lines 241-256; with a token, verifyWithToken, lines 161-191:
\* the pty is spawned and both timers are armed
WhichCopilot ==
    /\ pc = "which"
    /\ \E found \in CopilotPaths :
         /\ copilotPath' = found
         /\ IF found = ""
            THEN /\ log' = Append(log, "which copilot")
                 /\ VerificationThrew(NotFoundMessage)
                 /\ UNCHANGED <<child, timersV>>
            ELSE IF hasToken
            THEN /\ log' = log \o <<"which copilot", "pty.spawn copilot -i">>
                 /\ child' = "running"
                 /\ now' = 0
                 /\ killAfter' = "armed"
                 /\ hardKill' = "armed"
                 /\ pc' = "session"
                 /\ UNCHANGED <<followUp, followUpDue, warnings, verification, failed>>
            ELSE /\ log' = Append(log, "which copilot")
                 /\ pc' = "static"
                 /\ UNCHANGED <<child, timersV, warnings, verification, failed>>
    /\ UNCHANGED <<inputsV, runV, nodeV, installV, addedPaths, signalsV, dataEvents, chunks,
                   exitCode, settled, combinedOutput, handshake, reported, outputs>>

\* verifyWithToken, lines 175-179: ptyProcess.onData
OnData ==
    /\ child = "running"
    /\ Len(dataEvents) < MaxChunks
    /\ \E data \in ChunkMenu :
         /\ dataEvents' = Append(dataEvents, data)
         /\ chunks' = IF chunkKept(data) THEN Append(chunks, data) ELSE chunks
    /\ UNCHANGED <<pc, inputsV, runV, nodeV, installV, effectsV, timersV, signalsV, child,
                   exitCode, settled, combinedOutput, handshake, verifyV, reportV>>

\* the armed timers and their due times
ArmedDues ==
    (IF killAfter = "armed" THEN {GracefulMs} ELSE {})
    \cup (IF followUp = "armed" THEN {followUpDue} ELSE {})
    \cup (IF hardKill = "armed" THEN {HardKillMs} ELSE {})
Min(S) == CHOOSE x \in S : \A y \in S : x <= y

\* time passes, up to the next due timer
Tick ==
    /\ ArmedDues # {}
    /\ now < Min(ArmedDues)
    /\ now' = IF now + TickMs < Min(ArmedDues) THEN now + TickMs ELSE Min(ArmedDues)
    /\ UNCHANGED <<pc, inputsV, runV, nodeV, installV, effectsV, killAfter, followUp,
                   hardKill, followUpDue, signalsV, ptyV, verifyV, reportV>>

Signal == [at |-> now, afterExit |-> child = "exited"]

\* variant in which the graceful-stop callback cancels the hard-stop timer
hardKillClearedByGraceful(state) == IF state = "armed" THEN "cleared" ELSE state

\* verifyWithToken, lines 183-186: what the graceful-stop callback does to the
\* hard-stop timer (nothing)
hardKillAfterGraceful(state) == state

\* verifyWithToken, lines 183-186: the graceful-stop timer fires
KillAfterFire ==
    /\ killAfter = "armed"
    /\ now >= GracefulMs
    /\ writes' = Append(writes, Signal)
    /\ killAfter' = "fired"
    /\ followUp' = "armed"
    /\ followUpDue' = now + FollowUpMs
    /\ hardKill' = hardKillAfterGraceful(hardKill)
    /\ UNCHANGED <<pc, inputsV, runV, nodeV, installV, effectsV, now, kills, ptyV,
                   verifyV, reportV>>

\* verifyWithToken, line 185: the follow-up interrupt
FollowUpFire ==
    /\ followUp = "armed"
    /\ now >= followUpDue
    /\ writes' = Append(writes, Signal)
    /\ followUp' = "fired"
    /\ UNCHANGED <<pc, inputsV, runV, nodeV, installV, effectsV, now, killAfter, hardKill,
                   followUpDue, kills, ptyV, verifyV, reportV>>

\* verifyWithToken, lines 189-191: the hard-stop timer fires
HardKillFire ==
    /\ hardKill = "armed"
    /\ now >= HardKillMs
    /\ kills' = Append(kills, Signal)
    /\ hardKill' = "fired"
    /\ UNCHANGED <<pc, inputsV, runV, nodeV, installV, effectsV, now, killAfter, followUp,
                   followUpDue, writes, ptyV, verifyV, reportV>>

\* variant of clearTimeout that leaves the timer armed
clearTimeoutNoop(timer) == timer

\* clearTimeout
clearTimeout(timer) == IF timer = "armed" THEN "cleared" ELSE timer

\* variant of the exit handler that clears the graceful-stop timer only
timersAfterExitGracefulOnly(t) ==
    [killAfter |-> IF t.killAfter = "armed" THEN "cleared" ELSE t.killAfter,
     followUp  |-> t.followUp,
     hardKill  |-> t.hardKill]

\* verifyWithToken, lines 194-195: the timers after the exit handler
timersAfterExit(t) ==
    [killAfter |-> clearTimeout(t.killAfter),
     followUp  |-> t.followUp,
     hardKill  |-> clearTimeout(t.hardKill)]

\* verifyWithToken, lines 193-214: ptyProcess.onExit, the promise settles and,
\* when it resolved, the transcript is classified
OnExit ==
    /\ pc = "session"
    /\ child = "running"
    /\ \E code \in ExitCodes :
         LET rejected == startupRejected(code, chunks)
             output   == Join(chunks)
             matched  == loginPatternTest(output)
             after    == timersAfterExit([killAfter |-> killAfter, followUp |-> followUp,
                                          hardKill |-> hardKill])
         IN  /\ child' = "exited"
             /\ exitCode' = code
             /\ killAfter' = after.killAfter
             /\ followUp' = after.followUp
             /\ hardKill' = after.hardKill
             /\ settled' = IF rejected THEN "rejected" ELSE "resolved"
             /\ combinedOutput' = IF rejected THEN combinedOutput ELSE output
             /\ handshake' = IF rejected THEN handshake
                             ELSE IF matched THEN "observed" ELSE "missing"
             /\ IF rejected
                THEN VerificationThrew(ExitedMessage(code))
                ELSE IF ~matched
                THEN VerificationThrew(HandshakeMessage(tokenSource, output))
                ELSE /\ pc' = "version_query"
                     /\ UNCHANGED <<warnings, verification, failed>>
    /\ UNCHANGED <<inputsV, runV, nodeV, installV, effectsV, now, followUpDue, signalsV,
                   dataEvents, chunks, copilotPath, reported, outputs>>

\* variant of getCopilotVersion that returns the stdout as printed
getCopilotVersionUntrimmed(stdout) == stdout

\* getCopilotVersion, lines 141-153: the trimmed stdout of `copilot -v`
getCopilotVersion(stdout) == Trim(stdout)

\* verifyInstallation, lines 253-260, then run(), lines 327-339
QueryVersion ==
    /\ pc = "version_query"
    /\ log' = Append(log, "copilot -v")
    /\ \E ok \in BOOLEAN, stdout \in ReportedVersions :
         IF ok
         THEN /\ reported' = stdout
              /\ VerificationPassed(getCopilotVersion(stdout), copilotPath)
              /\ UNCHANGED <<warnings, failed>>
         ELSE /\ reported' = reported
              /\ VerificationThrew(ExecFailedMessage("copilot"))
              /\ UNCHANGED outputs
    /\ UNCHANGED <<inputsV, runV, nodeV, installV, addedPaths, timersV, signalsV, ptyV,
                   copilotPath>>

\* verifyWithoutToken, lines 217-235, then run(), lines 327-339
VerifyWithoutToken ==
    /\ pc = "static"
    /\ log' = Append(log, "copilot -v")
    /\ \E ok \in BOOLEAN, stdout \in ReportedVersions :
         LET installedVersion == getCopilotVersion(stdout)
         IN  IF ~ok
             THEN /\ reported' = reported
                  /\ VerificationThrew(ExecFailedMessage("copilot"))
                  /\ UNCHANGED outputs
             ELSE IF ~staticVersionAccepted(version, installedVersion)
             THEN /\ reported' = stdout
                  /\ VerificationThrew(MismatchMessage(installedVersion, version))
                  /\ UNCHANGED outputs
             ELSE /\ reported' = stdout
                  /\ VerificationPassed(installedVersion, copilotPath)
                  /\ UNCHANGED <<warnings, failed>>
    /\ UNCHANGED <<inputsV, runV, nodeV, installV, addedPaths, timersV, signalsV, ptyV,
                   copilotPath>>

-----------------------------------------------------------------------------
Next ==
    \/ Start
    \/ CheckVersions
    \/ InstallNodeAndNpm
    \/ InstallVianpm
    \/ DownloadScript
    \/ ChmodScript
    \/ RunScript
    \/ WhichCopilot
    \/ OnData
    \/ Tick
    \/ KillAfterFire
    \/ FollowUpFire
    \/ HardKillFire
    \/ OnExit
    \/ QueryVersion
    \/ VerifyWithoutToken

Spec == Init /\ [][Next]_vars

(* One interactive session on its own: the run with the input token on the   *)
(* ready linux runner, taken from the moment the pty was spawned.  Node's    *)
(* event loop runs every due timer, and a child that was forcibly killed     *)
(* exits and its exit event is delivered; a child that was not killed may    *)
(* run forever.                                                              *)
PtyInit ==
    /\ pc = "session"
    /\ inputVersion = ""
    /\ inputToken = "tok_input"
    /\ envGhToken = ""
    /\ envGithubToken = ""
    /\ host = BaseHost
    /\ version = "latest"
    /\ hasToken = TRUE
    /\ tokenSource = "input token"
    /\ exported = << <<"GH_TOKEN", "tok_input">> >>
    /\ platformInfo = [platform |-> "linux", arch |-> "x64"]
    /\ check = [ok |-> TRUE, nodeVersion |-> "v24.1.0", npmVersion |-> "11.3.0"]
    /\ nodeInstalls = 0
    /\ installed = TRUE
    /\ strategies = <<Outcome("npm", "ok")>>
    /\ log = <<"which node", "which npm", "node --version", "npm --version",
               "npm install -g @github/copilot", "which copilot", "pty.spawn copilot -i">>
    /\ addedPaths = <<>>
    /\ scriptEnv = NoScriptEnv
    /\ copilotPath = "/resolved/path"
    /\ child = "running"
    /\ dataEvents = <<>>
    /\ chunks = <<>>
    /\ now = 0
    /\ killAfter = "armed"
    /\ followUp = "unset"
    /\ hardKill = "armed"
    /\ followUpDue = 0
    /\ writes = <<>>
    /\ kills = <<>>
    /\ exitCode = NoExit
    /\ settled = "pending"
    /\ combinedOutput = Null
    /\ handshake = "untested"
    /\ reported = NotRun
    /\ verification = NoVerification
    /\ warnings = <<>>
    /\ failed = <<>>
    /\ outputs = <<>>

NextPty ==
    \/ OnData
    \/ Tick
    \/ KillAfterFire
    \/ FollowUpFire
    \/ HardKillFire
    \/ OnExit
    \/ QueryVersion

SpecPty ==
    /\ PtyInit
    /\ [][NextPty]_vars
    /\ WF_vars(Tick)
    /\ WF_vars(KillAfterFire)
    /\ WF_vars(FollowUpFire)
    /\ WF_vars(HardKillFire)
    /\ WF_vars(kills # <<>> /\ OnExit)

(* validateVersion on its own: run() up to its first await, for every version *)
(* input, on the ready linux runner without a credential.                      *)
InitValidate ==
    /\ inputVersion \in VersionStrings
    /\ inputToken = ""
    /\ envGhToken = ""
    /\ envGithubToken = ""
    /\ host = BaseHost
    /\ Fresh

NextValidate == Start

SpecValidate == InitValidate /\ [][NextValidate]_vars

(* checkVersions on its own: run() up to the end of the first check of       *)
(* ensureNodeAndNpm, on a linux runner, for every answer of CheckProbes.      *)
InitCheck ==
    /\ inputVersion = ""
    /\ inputToken = ""
    /\ envGhToken = ""
    /\ envGithubToken = ""
    /\ \E probe \in CheckProbes : host = Host([os |-> "linux", arch |-> "x64"], probe)
    /\ Fresh

NextCheck ==
    \/ Start
    \/ pc = "node_check" /\ CheckVersions

SpecCheck == InitCheck /\ [][NextCheck]_vars

-----------------------------------------------------------------------------
(* Properties *)

Last(seq) == seq[Len(seq)]
InLog(op) == \E i \in DOMAIN log : log[i] = op
Occurrences(op) == Cardinality({i \in DOMAIN log : log[i] = op})
IsNpmOp(op) == Len(op) >= 14 /\ SubSeq(op, 1, 14) = "npm install -g"
ScriptOps ==
    {"download https://gh.io/copilot-install", "chmod +x copilot-install.sh",
     "bash copilot-install.sh"}
ScriptCalled == \E i \in DOMAIN strategies : strategies[i].strategy = "script"
NpmReported(result) ==
    /\ strategies # <<>>
    /\ strategies[1].strategy = "npm"
    /\ strategies[1].result = result
InstallationFailed == failed = <<actionFailed(InstallFailedMessage)>>
VerificationStarted == InLog("which copilot")

\* C1: once the package-manager strategy has reported success, the script
\* strategy is not called and the log holds no download, chmod or bash of the
\* install script, in any later state of the run.
C1_NpmSuccessSkipsScript ==
    NpmReported("ok") => ~ScriptCalled /\ \A op \in ScriptOps : ~InLog(op)

C1_Witness == NpmReported("ok") /\ pc = "done"

\* C2: on windows, once the package-manager strategy has reported failure, the
\* script strategy is not called, no script operation is logged, the run has
\* failed with the installation-failed message alone, and verification was
\* not started.
C2_WindowsFailsDirectly ==
    (platformInfo.platform = "windows" /\ NpmReported("failed")) =>
        /\ ~ScriptCalled
        /\ \A op \in ScriptOps : ~InLog(op)
        /\ pc = "failed"
        /\ InstallationFailed
        /\ ~VerificationStarted

C2_Witness == platformInfo.platform = "windows" /\ NpmReported("failed") /\ pc = "failed"

\* C3: on linux and macos, once the package-manager strategy has reported
\* failure, the script strategy has been called exactly once, after the npm
\* attempt, each of its operations at most once and after the npm install; the
\* run reports the installation-failed error exactly when the script strategy
\* reported failure too, and then the run has failed with that error alone
\* and verification was not started.
C3_ScriptOnceAfterNpm ==
    (platformInfo.platform \in {"linux", "macos"} /\ NpmReported("failed")) =>
        /\ Len(strategies) = 2
        /\ strategies[2].strategy = "script"
        /\ \A op \in ScriptOps : Occurrences(op) <= 1
        /\ \A i, j \in DOMAIN log : (log[i] \in ScriptOps /\ IsNpmOp(log[j])) => j < i
        /\ (\E i \in DOMAIN failed : failed[i] = actionFailed(InstallFailedMessage))
             <=> strategies[2].result = "failed"
        /\ strategies[2].result = "failed" =>
             /\ pc = "failed"
             /\ InstallationFailed
             /\ ~VerificationStarted

C3_Witness ==
    /\ platformInfo.platform = "macos"
    /\ NpmReported("failed")
    /\ Len(strategies) = 2
    /\ strategies[2].result = "failed"
    /\ InLog("bash copilot-install.sh")

CredentialAvailable == inputToken # "" \/ envGhToken # "" \/ envGithubToken # ""
BinaryResolved == copilotPath # Null /\ copilotPath # ""
Spawned == InLog("pty.spawn copilot -i")

\* C4: an interactive session is spawned exactly in the runs that have a
\* credential (input token, GH_TOKEN or GITHUB_TOKEN) and resolved the binary;
\* a run without credential spawns none, and once its version query returned a
\* version satisfying the static check it has not failed.
C4_ModeByCredential ==
    /\ Spawned <=> (CredentialAvailable /\ BinaryResolved)
    /\ ~CredentialAvailable =>
         /\ ~Spawned
         /\ (reported # NotRun /\ staticVersionAccepted(version, Trim(reported)))
              => (pc = "done" /\ failed = <<>>)

C4_Witness ==
    /\ Spawned
    /\ inputToken = ""
    /\ envGhToken = ""
    /\ envGithubToken # ""

\* the transcript in lower case
RECURSIVE LowerString(_)
LowerString(s) ==
    IF Len(s) = 0 THEN "" ELSE LowerChar(CharAt(s, 1)) \o LowerString(SubSeq(s, 2, Len(s)))

\* the word "welcome", then whitespace up to position j - 1, then a
\* non-whitespace character at j
WelcomesAName(s) ==
    LET t == LowerString(s)
    IN  \E i \in 1..Len(s) :
            /\ i + 7 <= Len(s)
            /\ SubSeq(t, i, i + 6) = "welcome"
            /\ \E j \in (i + 8)..Len(s) :
                   /\ \A k \in (i + 7)..(j - 1) : IsSpace(CharAt(s, k))
                   /\ ~IsSpace(CharAt(s, j))
ShowsLoginText(s) == Includes(LowerString(s), "logged in as user") \/ WelcomesAName(s)
\* every transcript a session can resolve with, and for each whether it shows
\* the phrase
Transcripts == {Join(ss) : ss \in UNION {[1..n -> ChunkMenu] : n \in 0..MaxChunks}}
ShowsLoginOf == [s \in Transcripts |-> ShowsLoginText(s)]
ShowsLogin(s) == ShowsLoginOf[s]

\* C5: for every session whose transcript was classified, the handshake is
\* observed iff the transcript contains, without regard to case, "logged in
\* as user" or "welcome", whitespace and a non-whitespace character; when it
\* is not observed the run has failed and the last warning is the handshake
\* error with the transcript.
C5_HandshakeIffPhrase ==
    handshake # "untested" =>
        /\ (handshake = "observed") <=> ShowsLogin(combinedOutput)
        /\ handshake = "missing" =>
             /\ pc = "failed"
             /\ Last(warnings)
                  = verificationWarning(HandshakeMessage(tokenSource, combinedOutput))

C5_Witness == handshake = "observed" /\ combinedOutput = "Welcome Alice"

StripV(s) == IF Len(s) >= 1 /\ CharAt(s, 1) = "v" THEN SubSeq(s, 2, Len(s)) ELSE s
ExactRequested == version # Null /\ version # "latest" /\ version # "prerelease"
StaticQueried == ~hasToken /\ reported # NotRun
ReportedContainsRequested == Includes(StripV(Trim(reported)), StripV(version))
StaticMismatch == StaticQueried /\ ExactRequested /\ ~ReportedContainsRequested
VerificationFailed == pc = "failed" /\ VerificationStarted
StartsWith(s, head) == Len(s) >= Len(head) /\ SubSeq(s, 1, Len(head)) = head

\* C6 as stated: when a run ends in a verification failure, the setFailed
\* message contains the transcript (handshake failure) or mentions the version
\* mismatch (static mismatch).
C6_FailureMessageCarriesCause ==
    VerificationFailed =>
        /\ handshake = "missing" => Includes(Last(failed), combinedOutput)
        /\ StaticMismatch => Includes(Last(failed), "does not match requested version")

\* C6 amended: when a run ends in a verification failure, the setFailed
\* message is the fixed text "Action failed: Copilot CLI was installed but
\* verification failed. The CLI cannot be started."; the cause and the captured
\* text are in the last warning: for a handshake failure it contains the full
\* transcript, for a static mismatch it mentions the mismatch and both versions.
C6_WarningCarriesCause ==
    VerificationFailed =>
        /\ failed = <<actionFailed(VerifyFailedMessage)>>
        /\ warnings # <<>>
        /\ StartsWith(Last(warnings), "Verification failed: ")
        /\ handshake = "missing" =>
             /\ Includes(Last(warnings), "did not emit a logged-in/welcome message")
             /\ Includes(Last(warnings), "Captured output:\n" \o combinedOutput)
        /\ StaticMismatch =>
             /\ Includes(Last(warnings), "does not match requested version")
             /\ Includes(Last(warnings), "(" \o Trim(reported) \o ")")
             /\ Includes(Last(warnings), "(" \o version \o ")")

C6_Witness ==
    /\ VerificationFailed
    /\ handshake = "missing"
    /\ combinedOutput = "Welcome "

\* C7: every spawned session settles, even when the child never exits on its
\* own and ignores both interrupts: the graceful-stop callback leaves the
\* hard-stop timer as it was, the hard-stop timer has fired exactly when a
\* forced kill was issued, and a running child is always followed by a settled
\* session.
C7_HardStopGuaranteesProgress ==
    /\ [](child = "running" => <>(settled # "pending"))
    /\ [][(killAfter = "armed" /\ killAfter' = "fired") => hardKill' = hardKill]_vars
    /\ [](hardKill = "fired" <=> kills # <<>>)

C7_Witness ==
    /\ child = "exited"
    /\ settled # "pending"
    /\ Len(writes) = 2
    /\ ~writes[2].afterExit
    /\ Len(kills) = 1
    /\ ~kills[1].afterExit
    /\ kills[1].at = HardKillMs

\* C8: no ptyProcess.write and no ptyProcess.kill happens after the exit
\* handler has run.
C8_NoSignalAfterExit ==
    /\ \A i \in DOMAIN writes : ~writes[i].afterExit
    /\ \A i \in DOMAIN kills : ~kills[i].afterExit

AllEmpty(events) == \A i \in DOMAIN events : events[i] = ""

\* C9: after the exit event the session is rejected iff the exit code is not 0
\* and every data event delivered was empty, and then the run has failed with
\* the startup error; otherwise the session resolved with the concatenation of
\* the delivered data and that transcript was classified.
C9_StartupFailureIffNoOutput ==
    child = "exited" =>
        /\ (settled = "rejected") <=> (exitCode # 0 /\ AllEmpty(dataEvents))
        /\ settled = "rejected" =>
             /\ handshake = "untested"
             /\ pc = "failed"
             /\ Last(warnings) = verificationWarning(ExitedMessage(exitCode))
        /\ settled # "rejected" =>
             /\ settled = "resolved"
             /\ combinedOutput = Join(dataEvents)
             /\ handshake # "untested"

C9_Witness ==
    /\ settled = "rejected"
    /\ dataEvents # <<>>

\* C10: in static mode with an exact version requested, once the version
\* query returned, the run succeeded iff the reported version, trimmed and
\* without one leading "v", contains the requested version without its
\* leading "v"; otherwise it failed with the version-mismatch error.
C10_StaticExactIffContains ==
    (StaticQueried /\ ExactRequested) =>
        /\ (pc = "done") <=> ReportedContainsRequested
        /\ ~ReportedContainsRequested =>
             /\ pc = "failed"
             /\ Last(warnings)
                  = verificationWarning(MismatchMessage(Trim(reported), version))

C10_Witness ==
    /\ StaticQueried
    /\ version = "v1.2.3"
    /\ reported = "1.2.3\n"
    /\ pc = "done"

OutputOf(name) ==
    LET hits == {i \in DOMAIN outputs : outputs[i][1] = name}
    IN  IF hits = {} THEN Null ELSE outputs[CHOOSE i \in hits : \A j \in hits : j <= i][2]

\* C11: in every successful run the output `version` is the trimmed text the
\* binary printed for `copilot -v`, the output `path` is the path io.which
\* resolved, and nothing was reported as failed; and the run that requested
\* "latest" without a credential, installed through npm and whose binary at
\* /resolved/path printed 2.0.0 has, once the version query returned,
\* succeeded with the outputs version "2.0.0" and path "/resolved/path".
C11_OutputsAreVerifiedValues ==
    /\ pc = "done" =>
         /\ reported # NotRun
         /\ BinaryResolved
         /\ outputs = << <<"version", Trim(reported)>>, <<"path", copilotPath>> >>
         /\ failed = <<>>
    /\ ( /\ version = "latest"
         /\ ~CredentialAvailable
         /\ NpmReported("ok")
         /\ copilotPath = "/resolved/path"
         /\ reported = "2.0.0\n" ) =>
         /\ pc = "done"
         /\ OutputOf("version") = "2.0.0"
         /\ OutputOf("path") = "/resolved/path"
         /\ failed = <<>>

C11_Witness ==
    /\ pc = "done"
    /\ version = "latest"
    /\ ~CredentialAvailable
    /\ NpmReported("ok")
    /\ outputs = << <<"version", "2.0.0">>, <<"path", "/resolved/path">> >>

DigitSet == {"0", "1", "2", "3", "4", "5", "6", "7", "8", "9"}
LetterSet ==
    {"a", "b", "c", "d", "e", "f", "g", "h", "i", "j", "k", "l", "m", "n", "o", "p", "q",
     "r", "s", "t", "u", "v", "w", "x", "y", "z", "A", "B", "C", "D", "E", "F", "G", "H",
     "I", "J", "K", "L", "M", "N", "O", "P", "Q", "R", "S", "T", "U", "V", "W", "X", "Y", "Z"}
\* a non-empty run of digits
AllDigits(s) == Len(s) >= 1 /\ \A k \in 1..Len(s) : CharAt(s, k) \in DigitSet
\* a non-empty run of letters, digits, dots and hyphens
AllSuffixChars(s) ==
    /\ Len(s) >= 1
    /\ \A k \in 1..Len(s) : CharAt(s, k) \in LetterSet \cup DigitSet \cup {".", "-"}
\* three digit runs separated by dots
ThreeNumbers(s) ==
    \E i, j \in 1..Len(s) :
        /\ i < j
        /\ CharAt(s, i) = "."
        /\ CharAt(s, j) = "."
        /\ AllDigits(SubSeq(s, 1, i - 1))
        /\ AllDigits(SubSeq(s, i + 1, j - 1))
        /\ AllDigits(SubSeq(s, j + 1, Len(s)))
\* optional "v", three numbers, optional "-" and a suffix
ExactVersionForm(v) ==
    LET body == StripV(v)
    IN  \/ ThreeNumbers(body)
        \/ \E h \in 1..Len(body) :
               /\ CharAt(body, h) = "-"
               /\ ThreeNumbers(SubSeq(body, 1, h - 1))
               /\ AllSuffixChars(SubSeq(body, h + 1, Len(body)))
AcceptableVersion(v) == v \in {"latest", "prerelease"} \/ ExactVersionForm(v)

Terminal == pc \in {"done", "failed"}
HostSupported == platformName(host.os) # "" /\ archSupported(host.arch)

\* C12: a run that has ended is in one of two states: done, with the outputs
\* version and path set and nothing reported as failed, or failed, with
\* exactly one setFailed message that has a text after "Action failed: " and
\* no output set.  A run that has not ended has reported nothing, and it
\* waits for a session exactly while the child of that session is still
\* running.  Past the first step an invalid version or an unsupported
\* host has failed the run; so has a runtime install that did not complete,
\* an installation whose last strategy reported failure, and a verification
\* that returned without success; a verification that returned success ends
\* the run as done.
C12_TwoTerminalStates ==
    /\ pc = "done" =>
         /\ Len(outputs) = 2
         /\ outputs[1][1] = "version"
         /\ outputs[2][1] = "path"
         /\ failed = <<>>
    /\ pc = "failed" =>
         /\ Len(failed) = 1
         /\ StartsWith(failed[1], "Action failed: ")
         /\ Len(failed[1]) > Len("Action failed: ")
         /\ outputs = <<>>
    /\ ~Terminal =>
         /\ failed = <<>>
         /\ outputs = <<>>
         /\ pc = "session" <=> child = "running"
    /\ (pc # "start" /\ (~AcceptableVersion(version) \/ ~HostSupported)) => pc = "failed"
    /\ (nodeInstalls >= 1 /\ addedPaths = <<>>) => pc = "failed"
    /\ (strategies # <<>> /\ Last(strategies).result = "failed") => pc = "failed"
    /\ (\E i \in DOMAIN warnings : StartsWith(warnings[i], "Verification failed")) =>
         pc = "failed"
    /\ verification.success => pc = "done"

C12_Witness ==
    /\ pc = "failed"
    /\ failed = <<actionFailed(VerifyFailedMessage)>>
    /\ outputs = <<>>
    /\ reported = "1.2.4\n"

\* C14: past validateVersion the run goes on exactly when the version is
\* "latest", "prerelease" or has the form optional "v", three dot-separated
\* digit runs, optional "-" and a suffix of letters, digits, dots and hyphens;
\* for every other string the run has failed with the invalid-version error
\* naming the string and nothing else.
C14_ValidateVersionForm ==
    pc # "start" =>
        /\ (pc # "failed") <=> AcceptableVersion(version)
        /\ pc = "failed" => failed = <<actionFailed(InvalidVersionMessage(version))>>

C14_Witness ==
    /\ pc = "failed"
    /\ version = "v1.2.3.4"
    /\ failed = <<actionFailed(InvalidVersionMessage("v1.2.3.4"))>>

InMatrix == host.os \in {"linux", "darwin", "win32"} /\ host.arch \in {"x64", "arm64"}

\* C13: on a host outside {linux, darwin, win32} x {x64, arm64} the run never
\* leaves its first step except into failure: no platform is resolved, the
\* log of external operations (probes, downloads, installs, verification)
\* stays empty, no runtime install, install strategy or child is started, and
\* with a valid version the failure reported is the unsupported-platform or
\* unsupported-architecture error.
C13_UnsupportedHostDoesNothing ==
    ~InMatrix =>
        /\ pc \in {"start", "failed"}
        /\ platformInfo = NoPlatform
        /\ log = <<>>
        /\ nodeInstalls = 0
        /\ strategies = <<>>
        /\ addedPaths = <<>>
        /\ child = "none"
        /\ copilotPath = Null
        /\ reported = NotRun
        /\ outputs = <<>>
        /\ (pc = "failed" /\ AcceptableVersion(version)) =>
             failed = << actionFailed(
                            IF host.os \notin {"linux", "darwin", "win32"}
                            THEN UnsupportedPlatformMessage(host.os)
                            ELSE UnsupportedArchMessage(host.arch)) >>

C13_Witness ==
    /\ host.os = "linux"
    /\ host.arch = "ia32"
    /\ pc = "failed"
    /\ failed = <<actionFailed(UnsupportedArchMessage("ia32"))>>
    /\ log = <<>>

\* C15: a run whose version is neither "latest", "prerelease" nor of the
\* exact-version form has failed, once and with the invalid-version error, and
\* stays so: no platform was resolved, no probe, runtime install, install
\* strategy or verification step was performed, GH_TOKEN was not exported and
\* no output was set, whatever credential the run was given.
C15_InvalidVersionFailsFast ==
    (version # Null /\ ~AcceptableVersion(version)) =>
        /\ pc = "failed"
        /\ failed = <<actionFailed(InvalidVersionMessage(version))>>
        /\ platformInfo = NoPlatform
        /\ log = <<>>
        /\ nodeInstalls = 0
        /\ strategies = <<>>
        /\ child = "none"
        /\ copilotPath = Null
        /\ reported = NotRun
        /\ exported = <<>>
        /\ outputs = <<>>

C15_Witness ==
    /\ version = "abc"
    /\ inputToken = "tok_input"
    /\ pc = "failed"
    /\ exported = <<>>

\* the credential by precedence: input token, then GH_TOKEN, then GITHUB_TOKEN
ChosenCredential ==
    IF inputToken # "" THEN inputToken
    ELSE IF envGhToken # "" THEN envGhToken
    ELSE envGithubToken
\* the value of GH_TOKEN in the environment of the run: the last export, or
\* what the environment held before the run
GhTokenNow == IF exported = <<>> THEN envGhToken ELSE Last(exported)[2]

\* C16: only GH_TOKEN is exported and at most once in a run; past the
\* credential step of a run with a valid version and a credential, GH_TOKEN
\* holds the input token if it is non-empty, else the GH_TOKEN the run
\* started with, else the GITHUB_TOKEN it started with, in every later state;
\* a run without any credential exports nothing.
C16_CanonicalCredential ==
    /\ Len(exported) <= 1
    /\ \A i \in DOMAIN exported : exported[i][1] = "GH_TOKEN"
    /\ (pc # "start" /\ CredentialAvailable /\ AcceptableVersion(version)) =>
         GhTokenNow = ChosenCredential
    /\ ~CredentialAvailable => exported = <<>>

C16_Witness ==
    /\ inputToken = ""
    /\ envGhToken = "tok_gh"
    /\ envGithubToken = "tok_github"
    /\ GhTokenNow = "tok_gh"
    /\ pc = "done"

\* the first answer of the host has both tools and majors at or above the minima
FirstProbeSatisfied ==
    /\ host.probe.nodePath # ""
    /\ host.probe.npmPath # ""
    /\ ~host.probe.throws
    /\ parseMajor(Trim(host.probe.nodeOut)) >= MinNodeMajor
    /\ parseMajor(Trim(host.probe.npmOut)) >= MinNpmMajor
IndexOf(op) == CHOOSE i \in DOMAIN log : log[i] = op /\ \A j \in DOMAIN log : log[j] = op => i <= j
IsNodeDownload(op) == StartsWith(op, "download ") /\ op \notin ScriptOps
NpmStarted == \E i \in DOMAIN log : IsNpmOp(log[i])
PrerequisiteFailed == pc = "failed" /\ log # <<>> /\ ~NpmStarted

\* C17: the runtime is installed at most once in a run, only after a first
\* probe that was not satisfied, and a run probes at most once more than it
\* installs, the second probe after the install; when the first probe is
\* satisfied nothing is downloaded for the runtime and there is one probe; an
\* install strategy is started only after a probe that was satisfied, the
\* first one or the one after the single install; and a run that failed in
\* this step (in a probe, in the install or for an unsatisfied re-probe) has
\* installed at most once and started no install strategy.
C17_RuntimeInstalledAtMostOnce ==
    /\ nodeInstalls <= 1
    /\ Occurrences("download SHASUMS256.txt") = nodeInstalls
    /\ Occurrences("which node") <= 1 + nodeInstalls
    /\ nodeInstalls = 1 =>
         /\ ~FirstProbeSatisfied
         /\ \A i \in DOMAIN log :
                log[i] = "which node" =>
                    (i = 1 \/ i > IndexOf("download SHASUMS256.txt"))
    /\ (FirstProbeSatisfied /\ log # <<>>) =>
         /\ nodeInstalls = 0
         /\ \A i \in DOMAIN log : ~IsNodeDownload(log[i])
         /\ Occurrences("which node") = 1
    /\ strategies # <<>> =>
         /\ check.ok
         /\ FirstProbeSatisfied \/ (nodeInstalls = 1 /\ Occurrences("which node") = 2)
    /\ (Occurrences("which node") = 2 /\ ~check.ok) => PrerequisiteFailed
    /\ PrerequisiteFailed =>
         /\ nodeInstalls <= 1
         /\ strategies = <<>>
         /\ ~installed

C17_Witness ==
    /\ PrerequisiteFailed
    /\ nodeInstalls = 1
    /\ Occurrences("which node") = 2
    /\ failed = <<actionFailed(RequiredMessage([nodeVersion |-> "v18.19.0",
                                                npmVersion |-> "10.2.3"]))>>

WarnedWith(head) == \E i \in DOMAIN warnings : StartsWith(warnings[i], head)
ScriptReported(result) == Len(strategies) = 2 /\ strategies[2].result = result
\* the operation logged last did not lead to the step that follows its success
StoppedAt(op, next) == log # <<>> /\ Last(log) = op /\ pc # next

\* C18: an install strategy that fails reports failure and nothing of its
\* error reaches setFailed: an npm install that did not succeed makes the npm
\* strategy report failure with a warning, after which the script strategy
\* was called (linux, macos) or the run failed with the generic
\* installation-failed error (windows); a script download, chmod or execution
\* that did not succeed makes the script strategy report failure with a
\* warning, after which the run failed with the generic error; and between
\* the start of the first strategy and the start of verification the only
\* failure ever reported is that generic error.
C18_StrategyFailuresAreContained ==
    /\ (NpmStarted /\ IsNpmOp(Last(log)) /\ pc # "which") => NpmReported("failed")
    /\ NpmReported("failed") =>
         /\ WarnedWith("Failed to install via npm: ")
         /\ platformInfo.platform \in {"linux", "macos"} => ScriptCalled
         /\ platformInfo.platform = "windows" => InstallationFailed
    /\ StoppedAt("download https://gh.io/copilot-install", "chmod") =>
         ScriptReported("failed")
    /\ StoppedAt("chmod +x copilot-install.sh", "bash") => ScriptReported("failed")
    /\ StoppedAt("bash copilot-install.sh", "which") => ScriptReported("failed")
    /\ ScriptReported("failed") =>
         /\ WarnedWith("Failed to install via script: ")
         /\ pc = "failed"
         /\ InstallationFailed
    /\ ScriptReported("running") => (pc \in {"download", "chmod", "bash"} /\ failed = <<>>)
    /\ (strategies # <<>> /\ ~VerificationStarted) =>
         \A i \in DOMAIN failed : failed[i] = actionFailed(InstallFailedMessage)

C18_Witness ==
    /\ StoppedAt("chmod +x copilot-install.sh", "bash")
    /\ ScriptReported("failed")
    /\ WarnedWith("Failed to install via script: The process 'chmod' failed")
    /\ InstallationFailed

\* the stage an external operation belongs to: 2 runtime prerequisite, 3 npm
\* strategy, 4 script strategy, 5 verification
StageOf(op) ==
    IF op \in ScriptOps THEN 4
    ELSE IF IsNpmOp(op) THEN 3
    ELSE IF op \in {"which copilot", "pty.spawn copilot -i", "copilot -v"} THEN 5
    ELSE 2
SomeStrategySucceeded == \E i \in DOMAIN strategies : strategies[i].result = "ok"

\* C19: the external operations of a run appear in stage order (runtime
\* prerequisite, npm strategy, script strategy, verification) and each stage
\* starts only after the one before it completed: the prerequisite stage
\* after the platform was resolved, the npm strategy after a satisfied probe,
\* the script strategy after the npm strategy reported failure, verification
\* after a strategy reported success and with no strategy still running, the
\* outputs after verification returned success; a strategy is running only
\* while the run is inside it, and a child exists only inside verification.
C19_StagesInOrder ==
    /\ \A i \in 1..(Len(log) - 1) : StageOf(log[i]) <= StageOf(log[i + 1])
    /\ log # <<>> => (platformInfo # NoPlatform /\ InMatrix)
    /\ pc \in {"node_check", "node_install", "node_recheck"} =>
         (platformInfo # NoPlatform /\ strategies = <<>> /\ ~VerificationStarted)
    /\ NpmStarted => check.ok
    /\ ScriptCalled => NpmReported("failed")
    /\ pc \in {"npm", "download", "chmod", "bash"} =>
         (check.ok /\ ~VerificationStarted /\ outputs = <<>>)
    /\ ScriptReported("running") <=> pc \in {"download", "chmod", "bash"}
    /\ VerificationStarted =>
         /\ installed
         /\ SomeStrategySucceeded
         /\ Last(strategies).result = "ok"
    /\ child = "running" => pc = "session"
    /\ pc \in {"which", "session", "version_query", "static"} =>
         (installed /\ outputs = <<>>)
    /\ outputs # <<>> => (verification.success /\ pc = "done" /\ VerificationStarted)

C19_Witness ==
    /\ pc = "done"
    /\ nodeInstalls = 1
    /\ NpmReported("failed")
    /\ ScriptReported("ok")
    /\ Len(outputs) = 2

\* C20: in every session the graceful-stop timer has fired exactly when a
\* first interrupt was written, which happens at or after the graceful
\* deadline and never after the exit handler ran; its firing schedules the
\* follow-up, which has fired exactly when a second interrupt was written, at
\* least the follow-up delay after the first; no session writes more than two
\* interrupts; at most one forced kill is issued, at the hard-stop deadline
\* and not after the exit handler ran.
C20_InterruptsAndKillWithinLimits ==
    /\ Len(writes) <= 2
    /\ \A i \in DOMAIN writes : writes[i].at >= GracefulMs
    /\ (killAfter = "fired") <=> (writes # <<>>)
    /\ writes # <<>> => ~writes[1].afterExit
    /\ (killAfter = "fired") <=> (followUp \in {"armed", "fired"})
    /\ (followUp = "fired") <=> (Len(writes) = 2)
    /\ Len(writes) = 2 => writes[2].at >= writes[1].at + FollowUpMs
    /\ Len(kills) <= 1
    /\ (hardKill = "fired") <=> (kills # <<>>)
    /\ \A i \in DOMAIN kills : kills[i].at = HardKillMs /\ ~kills[i].afterExit

C20_Witness ==
    /\ child = "exited"
    /\ Len(writes) = 2
    /\ writes[1].at = GracefulMs
    /\ writes[2].at = GracefulMs + FollowUpMs
    /\ ~writes[2].afterExit
    /\ kills = <<>>
    /\ hardKill = "cleared"

Interactive == hasToken /\ Spawned
VersionQueried == InLog("copilot -v")
Before(first, second) ==
    \A i, j \in DOMAIN log : (log[i] = first /\ log[j] = second) => i < j

\* C21: in a run with a session, `copilot -v` is run only after the child
\* exited and its transcript showed the handshake phrase, and after the spawn
\* in the log; a session that was rejected or whose transcript lacks the
\* phrase never runs it; and the version output of such a run is the trimmed
\* text of that query, not the transcript.
C21_VersionQueriedAfterHandshake ==
    Interactive =>
        /\ VersionQueried =>
             /\ child = "exited"
             /\ settled = "resolved"
             /\ handshake = "observed"
             /\ ShowsLogin(combinedOutput)
             /\ Before("pty.spawn copilot -i", "copilot -v")
             /\ Occurrences("copilot -v") = 1
        /\ (settled = "rejected" \/ handshake = "missing") =>
             /\ ~VersionQueried
             /\ reported = NotRun
             /\ pc = "failed"
        /\ pc = "done" =>
             /\ reported # NotRun
             /\ OutputOf("version") = Trim(reported)

C21_Witness ==
    /\ Interactive
    /\ combinedOutput = "Welcome Alice"
    /\ reported = "2.0.0\n"
    /\ OutputOf("version") = "2.0.0"
    /\ pc = "done"

\* C22: a session that delivered some non-empty output is settled by its
\* transcript alone, whatever its exit code and whether the child exited after
\* the interrupts, after the forced kill or by itself: it resolved with the
\* joined output, its handshake is observed exactly when the transcript shows
\* the phrase, and then the run went on to the version query, as for exit
\* code 0; no warning of it mentions the exit code.
C22_NonZeroExitWithOutput ==
    (child = "exited" /\ ~AllEmpty(dataEvents)) =>
        /\ settled = "resolved"
        /\ combinedOutput = Join(dataEvents)
        /\ (handshake = "observed") <=> ShowsLogin(combinedOutput)
        /\ handshake = "observed" => (pc = "version_query" \/ VersionQueried)
        /\ handshake = "missing" =>
             Last(warnings) = verificationWarning(HandshakeMessage(tokenSource, combinedOutput))
        /\ \A i \in DOMAIN warnings : ~Includes(warnings[i], "exited with code")

C22_Witness ==
    /\ child = "exited"
    /\ exitCode = 1
    /\ kills # <<>>
    /\ combinedOutput = "LOGGED in as User"
    /\ pc = "done"

ScriptRan == scriptEnv # NoScriptEnv
AddedScriptBin == \E i \in DOMAIN addedPaths : addedPaths[i] = "~/.local/bin"

\* C23: when the install script was executed its environment has PREFIX
\* "~/.local" and has VERSION exactly when an exact version was requested,
\* then with that version; "~/.local/bin" was added to the search path
\* exactly when the script strategy reported success, at most once and after
\* the script was executed, and every other path added is the bin directory
\* of the installed runtime.
C23_ScriptEnvironmentAndPath ==
    /\ ScriptRan =>
         /\ InLog("bash copilot-install.sh")
         /\ scriptEnv.PREFIX = "~/.local"
         /\ (scriptEnv.VERSION # "") <=> ExactRequested
         /\ ExactRequested => scriptEnv.VERSION = version
    /\ AddedScriptBin <=> ScriptReported("ok")
    /\ ScriptReported("ok") => ScriptRan
    /\ Cardinality({i \in DOMAIN addedPaths : addedPaths[i] = "~/.local/bin"}) <= 1
    /\ \A i \in DOMAIN addedPaths :
           addedPaths[i] # "~/.local/bin" => StartsWith(addedPaths[i], "/tmp/node")

DigitValue(c) == CHOOSE n \in 0..9 : SubSeq("0123456789", n + 1, n + 1) = c
RECURSIVE DecimalValue(_, _)
DecimalValue(digits, acc) ==
    IF Len(digits) = 0 THEN acc
    ELSE DecimalValue(Tail(digits), 10 * acc + DigitValue(Head(digits)))
DigitPositions(s) == {i \in 1..Len(s) : CharAt(s, i) \in DigitSet}
HasNumber(s) == DigitPositions(s) # {}
\* the number written by the first run of digits of a string that has one
MajorOf(s) ==
    LET ds == DigitPositions(s)
        a  == CHOOSE i \in ds : \A k \in ds : i <= k
        b  == CHOOSE j \in a..Len(s) :
                  /\ \A k \in a..j : k \in ds
                  /\ (j + 1) \notin ds
    IN  DecimalValue(SubSeq(s, a, b), 0)
ProbeSuffices(p) ==
    /\ p.nodePath # ""
    /\ p.npmPath # ""
    /\ HasNumber(Trim(p.nodeOut))
    /\ HasNumber(Trim(p.npmOut))
    /\ MajorOf(Trim(p.nodeOut)) >= MinNodeMajor
    /\ MajorOf(Trim(p.npmOut)) >= MinNpmMajor

\* C24: once the first check of the runtime returned, it is satisfied, and the
\* run goes on to the npm strategy, exactly when node and npm were both found
\* and the first run of digits of each reported version is a number at or
\* above its minimum (24 for node, 10 for npm); in every other case it is
\* unsatisfied and the run goes on to install the runtime.
C24_CheckSatisfiedIffMajorsSuffice ==
    pc \notin {"start", "node_check"} =>
        /\ check.ok <=> ProbeSuffices(host.probe)
        /\ (pc = "npm") <=> ProbeSuffices(host.probe)
        /\ ~ProbeSuffices(host.probe) => pc = "node_install"

C24_Witness ==
    /\ pc = "npm"
    /\ check.ok
    /\ host.probe.nodeOut = "node v24.1.0\n"
    /\ host.probe.npmOut = "010.1"

\* C25: in a run with a credential whose handshake was observed and whose
\* version query returned, the run is done, nothing failed, and the version
\* output is the trimmed reported text, whether or not an exact version was
\* requested and whether or not the reported text contains it.
C25_InteractiveIgnoresRequestedVersion ==
    (hasToken /\ handshake = "observed" /\ reported # NotRun) =>
        /\ pc = "done"
        /\ failed = <<>>
        /\ verification.success
        /\ OutputOf("version") = Trim(reported)
        /\ OutputOf("path") = copilotPath

C25_Witness ==
    /\ hasToken
    /\ version = "v1.2.3"
    /\ handshake = "observed"
    /\ reported = "2.0.0\n"
    /\ ~ReportedContainsRequested
    /\ pc = "done"
    /\ OutputOf("version") = "2.0.0"

\* C26: in a run without credential that requested "latest" or "prerelease",
\* once the binary was resolved and the version query returned, the run is
\* done, nothing failed, and the version output is the trimmed reported text,
\* whatever that text is, the empty string included.
C26_StaticLatestAcceptsAnyVersion ==
    (~hasToken /\ version \in {"latest", "prerelease"} /\ reported # NotRun) =>
        /\ BinaryResolved
        /\ pc = "done"
        /\ failed = <<>>
        /\ verification.success
        /\ OutputOf("version") = Trim(reported)

C26_Witness ==
    /\ ~hasToken
    /\ version = "prerelease"
    /\ reported = ""
    /\ pc = "done"
    /\ OutputOf("version") = ""

\* C27: an exit event that arrives before the graceful deadline leaves both
\* timers cleared, and a session whose graceful-stop timer was cleared has
\* its hard-stop timer cleared too, no follow-up scheduled, and no interrupt
\* written and no kill issued, in that state and in every later one.
C27_EarlyExitCancelsTimers ==
    /\ [][(child = "running" /\ child' = "exited" /\ now < GracefulMs) =>
             (killAfter' = "cleared" /\ hardKill' = "cleared")]_vars
    /\ [](killAfter = "cleared" =>
             /\ child = "exited"
             /\ hardKill = "cleared"
             /\ followUp = "unset"
             /\ writes = <<>>
             /\ kills = <<>>)

C27_Witness ==
    /\ child = "exited"
    /\ now < GracefulMs
    /\ killAfter = "cleared"
    /\ hardKill = "cleared"
    /\ writes = <<>>
    /\ kills = <<>>
    /\ pc = "done"

=============================================================================
